---- MODULE Spec2Model ----
(***************************************************************************)
(* Two-lane intersection controller (traffic_controller.py).               *)
(*                                                                         *)
(* One control-loop thread polls two lane sensors and drives the signal    *)
(* state machine; one reader thread (the dashboard broadcaster of app.py)  *)
(* takes snapshots through get_current_state().  Clock values are whole    *)
(* seconds, which the floats of time.time() represent exactly; in          *)
(* TenthSpec they are tenths of a second.                                  *)
(***************************************************************************)
EXTENDS Integers, Sequences, FiniteSets

VARIABLES
    env,                \* what the environment may do in this exploration:
                        \* sleep lengths, time horizon, vehicles per lane
    clock,              \* time.time(), in seconds
    has_device,         \* VL53L0XSensor.sensor is not None, per lane
    road,               \* the vehicle in front of lane A's sensor when one
                        \* LaneMonitor is driven directly (LaneSpec)
    running,            \* TrafficController.running
    threads,            \* number of control_loop threads started and not
                        \* yet returned
    lanes,              \* the two LaneMonitor objects, per lane
    current_signal,     \* TrafficController.current_signal
    signal_start_time,  \* TrafficController.signal_start_time
    current_lane,       \* TrafficController.current_lane
    last_activity_time, \* TrafficController.last_activity_time
    lock,               \* owner of TrafficController.lock
    pc,                 \* position of the control-loop thread
    current_time,       \* control_loop local
    green_time,         \* control_loop local (seconds)
    loops,              \* the control-loop threads that start() has spawned,
                        \* each followed statement by statement (StartSpec)
    rpc,                \* position of the reader thread in get_current_state
    snap,               \* the dict get_current_state is building / has returned
    seen,               \* history: the (countA, countB, signal) values the
                        \* controller held at some instant of the current call
    arg_count,          \* argument of a direct calculate_green_time call
    ret_green           \* its return value

envVars    == <<env, clock, has_device, road>>
runVars    == <<running, threads, loops>>
ctrlVars   == <<lanes, current_signal, signal_start_time, current_lane,
                last_activity_time>>
loopVars   == <<pc, current_time, green_time>>
readerVars == <<rpc, snap, seen>>
callVars   == <<arg_count, ret_green>>
vars == <<env, clock, has_device, road, running, threads, lanes, current_signal,
          signal_start_time,
          current_lane, last_activity_time, lock, pc, current_time,
          green_time, loops, rpc, snap, seen, arg_count, ret_green>>

(***************************************************************************)
(* Bounds of the exploration.                                              *)
(***************************************************************************)
MaxTime == 30
MaxVehicles == 3
MaxIdleTime == 130
MaxSnapTime == 15
MaxSnapVehicles == 1
MaxArg == 60
MaxLaneTime == 10
MaxLaneVehicles == 2
MaxPolls == 3
MaxFails == 1
MaxReadings == 1
MaxHistoryTime == 7
MaxHistoryVehicles == 2
MaxRobustTime == 21
MaxRobustVehicles == 1
MaxThreads == 2
MaxStartTime == 13
MaxStartVehicles == 1
MaxServeTime == 132
MaxServeVehicles == 18
MaxTenthTime == 8
MaxTenthVehicles == 2

(***************************************************************************)
(* Program constants.                                                      *)
(***************************************************************************)
min_green_time == 10
max_green_time == 30
idle_timeout == 90
threshold_cm == 15
baseline_distance == 100
lane_width_cm == 4
SpeedCapacity == 20
StartTime == 1
None == -1
ReadFail == -2

Lanes == {"A", "B"}
Signals == {"RED", "GREEN_A", "GREEN_B"}

\* sensor.range values explored (mm): drops of 0, 15 and 16 cm from baseline.
Ranges == {1000, 850, 840}

(***************************************************************************)
(* Environments explored.  deltas are the seconds that pass from one tick  *)
(* to the next (the sleep lasts at least 0.1 s and the scheduler may       *)
(* stretch it), max_time the horizon of the clock, max_vehicles the number *)
(* of vehicles a lane may count between two resets, ranges what a read of  *)
(* sensor.range may deliver, max_readings the length of speed_readings up  *)
(* to which falling edges are explored, unit_ms the length of one unit of  *)
(* the clock in milliseconds.                                              *)
(***************************************************************************)
Reads == Ranges \cup {ReadFail}

\* sleeps of 2 s and 10 s: the grain of the green-time formula
TimingEnv == [deltas |-> {2, 10}, max_time |-> MaxTime,
              max_vehicles |-> MaxVehicles, ranges |-> Reads,
            max_readings |-> MaxReadings,
            unit_ms |-> 1000]
\* sleeps of 10 s and 90 s: long enough to pass the idle timeout
IdleEnv == [deltas |-> {10, 90}, max_time |-> MaxIdleTime,
            max_vehicles |-> MaxVehicles, ranges |-> Reads,
            max_readings |-> MaxReadings,
            unit_ms |-> 1000]
\* one green phase, with a concurrent reader
SnapEnv == [deltas |-> {2, 10}, max_time |-> MaxSnapTime,
            max_vehicles |-> MaxSnapVehicles, ranges |-> Reads,
            max_readings |-> MaxReadings,
            unit_ms |-> 1000]
\* every read of a sensor that has a device fails
DeadEnv == [deltas |-> {10, 90}, max_time |-> MaxIdleTime,
            max_vehicles |-> MaxVehicles, ranges |-> {ReadFail},
            max_readings |-> MaxReadings,
            unit_ms |-> 1000]
\* ten seconds between clock readings, forwards or backwards
RobustEnv == [deltas |-> {10}, max_time |-> MaxRobustTime,
              max_vehicles |-> MaxRobustVehicles, ranges |-> Reads,
              max_readings |-> MaxReadings,
              unit_ms |-> 1000]
\* one step of the clock, long enough to end the green phase of one vehicle
StartEnv == [deltas |-> {12}, max_time |-> MaxStartTime,
             max_vehicles |-> MaxStartVehicles, ranges |-> Reads,
             max_readings |-> MaxReadings,
             unit_ms |-> 1000]
\* ticks 10 s apart from ServeStart on, over a horizon that holds lane B's
\* green phase at max_green_time, lane A's after it and lane B's next one
ServeEnv == [deltas |-> {10}, max_time |-> MaxServeTime,
             max_vehicles |-> MaxServeVehicles, ranges |-> Reads,
             max_readings |-> MaxReadings,
             unit_ms |-> 1000]
\* one LaneMonitor whose speed_readings is at or next to its capacity
HistoryEnv == [deltas |-> {1}, max_time |-> MaxHistoryTime,
               max_vehicles |-> MaxHistoryVehicles, ranges |-> Reads,
               max_readings |-> SpeedCapacity + 1,
               unit_ms |-> 1000]
\* one LaneMonitor polled every 100 ms or every 300 ms, the clock counting
\* tenths of a second
TenthEnv == [deltas |-> {1, 3}, max_time |-> MaxTenthTime,
             max_vehicles |-> MaxTenthVehicles, ranges |-> Reads,
             max_readings |-> MaxReadings,
             unit_ms |-> 100]
\* one LaneMonitor driven call by call, the clock moving a second at a time
LaneEnv == [deltas |-> {1}, max_time |-> MaxLaneTime,
            max_vehicles |-> MaxLaneVehicles, ranges |-> Reads,
            max_readings |-> MaxReadings,
            unit_ms |-> 1000]

(***************************************************************************)
(* Exact rationals <<n, d>> (d > 0, lowest terms) stand for the floats of  *)
(* the speed estimates.                                                    *)
(***************************************************************************)
RECURSIVE Gcd(_, _)
Gcd(a, b) == IF b = 0 THEN a ELSE Gcd(b, a % b)

Rat(n, d) == LET g == Gcd(n, d) IN <<n \div g, d \div g>>

RatAdd(x, y) == Rat(x[1] * y[2] + y[1] * x[2], x[2] * y[2])

RatLeq(x, y) == x[1] * y[2] <= y[1] * x[2]

RECURSIVE RatSum(_)
RatSum(s) == IF s = <<>> THEN <<0, 1>> ELSE RatAdd(Head(s), RatSum(Tail(s)))

(***************************************************************************)
(* VL53L0XSensor                                                           *)
(***************************************************************************)
\* range_mm is what sensor.range yields on this read, or ReadFail if it raises.
\* variant: a failed read is reported as distance 0
get_distance_zero(device, range_mm) ==
    IF ~device THEN baseline_distance
    ELSE IF range_mm = ReadFail THEN 0
    ELSE range_mm \div 10

\* lines 60-68
get_distance(device, range_mm) ==
    IF ~device THEN baseline_distance
    ELSE IF range_mm = ReadFail THEN baseline_distance
    ELSE range_mm \div 10

is_vehicle_present(device, range_mm) ==
    LET distance == get_distance(device, range_mm)
        distance_drop == baseline_distance - distance
    IN  distance_drop > threshold_cm

(***************************************************************************)
(* LaneMonitor                                                             *)
(***************************************************************************)
\* lane_width_cm is the one field of self.sensor that LaneMonitor reads;
\* deque_state is the number of changes made to speed_readings, which a
\* collections.deque keeps and an iterator over it checks at every step
NewLaneMonitor ==
    [lane_width_cm |-> lane_width_cm,
     vehicle_count |-> 0, speed_readings |-> <<>>, deque_state |-> 0,
     last_vehicle_time |-> 0,
     vehicle_present |-> FALSE, entry_time |-> None]

\* deque(maxlen=20).append
\* variant: a list that grows without eviction
DequeAppend_unbounded(q, x) == Append(q, x)

\* lines 87 and 115: append to a deque(maxlen=20)
DequeAppend(q, x) ==
    IF Len(q) = SpeedCapacity THEN Append(Tail(q), x) ELSE Append(q, x)

\* variant: the width taken as metres, 3.6 in place of 0.036
speed_kmh_metres(width, blocking_time) ==
    Rat(width * 3600, blocking_time * env.unit_ms)

\* lines 111-112: speed_kmh = lane_width_cm / blocking_time * 0.036, as the
\* exact rational; blocking_time is a difference of clock values, each unit
\* of which is env.unit_ms / 1000 seconds
speed_kmh(width, blocking_time) ==
    Rat(width * 36, blocking_time * env.unit_ms)

\* line 114: 10 <= speed_kmh <= 60, on the doubles the code computes.  The
\* quotient lane_width_cm / blocking_time is rounded before it is multiplied
\* by 0.036: where the exact estimate is 10 the double is 9.999999999999998
\* (2500/9 * 0.036) and fails the test; where it is 60 the double is 60.0
\* (5000/3 * 0.036) and passes.  For whole widths up to 6000 cm and whole
\* durations up to 40 s the doubles and the rationals fall on the same side
\* of both bounds everywhere else.
speed_plausible(speed) ==
    /\ RatLeq(<<10, 1>>, speed)
    /\ speed # <<10, 1>>
    /\ RatLeq(speed, <<60, 1>>)

\* "if self.entry_time:" is false for None and for 0
truthy(t) == t # None /\ t # 0

\* variant: every sample that reports a vehicle is taken for an entry
rising_edge_level(lane, is_present) == is_present

\* line 98: the sensor reports a vehicle and none was present
rising_edge(lane, is_present) == is_present /\ ~lane.vehicle_present

\* line 106: the sensor reports none and a vehicle was present
falling_edge(lane, is_present) == ~is_present /\ lane.vehicle_present

\* lines 99-103
on_entry(lane, now) ==
    [lane EXCEPT !.entry_time = now,
                 !.vehicle_present = TRUE,
                 !.vehicle_count = @ + 1,
                 !.last_vehicle_time = now]

\* lines 107-115: the reading a falling edge at now contributes, if any
\* variant: a blocking time of 0 is let through to the division
speed_guard_nonneg(blocking_time) == blocking_time >= 0

\* line 110: the test in front of the division
speed_guard(blocking_time) == blocking_time > 0

accepted(lane, now) ==
    LET blocking_time == now - lane.entry_time
    IN  /\ truthy(lane.entry_time)
        /\ speed_guard(blocking_time)
        /\ speed_plausible(speed_kmh(lane.lane_width_cm, blocking_time))

\* variant: entry_time survives the exit
on_exit_keeps_entry(lane, now) ==
    [lane EXCEPT !.speed_readings =
                     IF accepted(lane, now)
                     THEN DequeAppend(@, speed_kmh(lane.lane_width_cm,
                                                   now - lane.entry_time))
                     ELSE @,
                 !.deque_state = IF accepted(lane, now) THEN @ + 1 ELSE @,
                 !.vehicle_present = FALSE]

\* variant: a reading that is not accepted ends the call before the clearing
on_exit_returns_early(lane, now) ==
    IF accepted(lane, now)
    THEN [lane EXCEPT !.speed_readings =
                          DequeAppend(@, speed_kmh(lane.lane_width_cm,
                                                   now - lane.entry_time)),
                      !.deque_state = @ + 1,
                      !.vehicle_present = FALSE,
                      !.entry_time = None]
    ELSE lane

\* lines 107-119
on_exit(lane, now) ==
    [lane EXCEPT !.speed_readings =
                     IF accepted(lane, now)
                     THEN DequeAppend(@, speed_kmh(lane.lane_width_cm,
                                                   now - lane.entry_time))
                     ELSE @,
                 !.deque_state = IF accepted(lane, now) THEN @ + 1 ELSE @,
                 !.vehicle_present = FALSE,
                 !.entry_time = None]

\* variant: a vehicle that stays has its entry time refreshed
no_edge_refresh(lane, now) ==
    [lane EXCEPT !.entry_time = IF lane.vehicle_present THEN now ELSE @]

\* lines 98 and 106 both false: nothing is executed
no_edge(lane, now) == lane

\* the exceptions update() can raise: a TypeError at line 108 when the
\* subtraction is reached with entry_time None, a ZeroDivisionError at
\* line 111 when the division is reached with blocking_time 0
update_raises(lane, is_present, now) ==
    /\ falling_edge(lane, is_present)
    /\ truthy(lane.entry_time)
    /\ \/ lane.entry_time = None
       \/ /\ speed_guard(now - lane.entry_time)
          /\ now - lane.entry_time = 0

\* lines 92-119
update(lane, is_present, now) ==
    IF rising_edge(lane, is_present) THEN on_entry(lane, now)
    ELSE IF falling_edge(lane, is_present) THEN on_exit(lane, now)
    ELSE no_edge(lane, now)

\* variant: no estimate yet is reported as -1
get_average_speed_unknown(lane) ==
    IF lane.speed_readings = <<>> THEN <<-1, 1>>
    ELSE LET s == RatSum(lane.speed_readings)
         IN  Rat(s[1], s[2] * Len(lane.speed_readings))

\* lines 121-125
get_average_speed(lane) ==
    IF lane.speed_readings = <<>> THEN <<0, 1>>
    ELSE LET s == RatSum(lane.speed_readings)
         IN  Rat(s[1], s[2] * Len(lane.speed_readings))

\* variant: one vehicle taken off the count instead of all
reset_count_decrement(lane) == [lane EXCEPT !.vehicle_count = @ - 1]

\* variant: the reset also forgets the vehicle in front of the sensor
reset_count_forgets(lane) ==
    [lane EXCEPT !.vehicle_count = 0, !.vehicle_present = FALSE,
                 !.entry_time = None]

reset_count(lane) == [lane EXCEPT !.vehicle_count = 0]

(***************************************************************************)
(* TrafficController                                                       *)
(***************************************************************************)
Min(a, b) == IF a <= b THEN a ELSE b

\* variant: the cap of max_green_time is not applied
calculate_green_time_uncapped(vehicle_count) ==
    min_green_time + (2 * vehicle_count)

\* variant: one second per vehicle instead of two
calculate_green_time_single(vehicle_count) ==
    Min(min_green_time + vehicle_count, max_green_time)

\* variant: min_green_time is left out of the sum
calculate_green_time_no_minimum(vehicle_count) ==
    Min(2 * vehicle_count, max_green_time)

\* lines 172-175
calculate_green_time(vehicle_count) ==
    Min(min_green_time + (2 * vehicle_count), max_green_time)

\* variant: the empty lane stays eligible
Other_same(l) == l

\* lines 218/228 and 238/249: the lane that is not l
Other(l) == IF l = "A" THEN "B" ELSE "A"
\* variant: lane B's signal name misspelt
\* variant: the lanes' signals exchanged
GreenFor_swapped(l) == IF l = "A" THEN "GREEN_B" ELSE "GREEN_A"

GreenFor_typo(l) == IF l = "A" THEN "GREEN_A" ELSE "GREEN"

GreenFor(l) == IF l = "A" THEN "GREEN_A" ELSE "GREEN_B"
\* variant: the green is handed to the other lane at once
after_green_handover(signal) ==
    IF signal = "GREEN_A" THEN "GREEN_B" ELSE "GREEN_A"

\* lines 237 and 248: the signal an expired green phase is followed by
after_green(signal) == "RED"

ServedLane(signal) == IF signal = "GREEN_A" THEN "A" ELSE "B"

\* variant: counts are looked at only while the signal is RED
has_activity_red_only ==
    /\ current_signal = "RED"
    /\ (lanes["A"].vehicle_count > 0 \/ lanes["B"].vehicle_count > 0)

\* variant: lane B's count is not looked at
has_activity_a_only == lanes["A"].vehicle_count > 0

\* variant: "and" in place of "or"
has_activity_both ==
    lanes["A"].vehicle_count > 0 /\ lanes["B"].vehicle_count > 0

\* line 193
has_activity == lanes["A"].vehicle_count > 0 \/ lanes["B"].vehicle_count > 0

\* variant: the timeout taken as minutes
idle_expired_minutes(idle_duration) ==
    idle_duration > idle_timeout * 60

idle_expired(idle_duration) == idle_duration > idle_timeout

\* variant: a green phase is never ended
phase_expired_never(elapsed, green) == FALSE

\* variant: strict comparison
phase_expired_strict(elapsed, green) == elapsed > green

phase_expired(elapsed, green) == elapsed >= green

EmptySnap == [laneA |-> None, speedA |-> None, laneB |-> None,
              speedB |-> None, signal |-> "none", iter |-> None]

\* no vehicle in front of the sensor, nothing polled yet
EmptyRoad == [occluded |-> FALSE, polls |-> 0, fails |-> 0, base |-> 0]

\* The places for control-loop threads.  pc is the line of
\* traffic_controller.py the thread executes next, lane the LaneMonitor
\* whose update() it is in, update_time, is_present and blocking_time the
\* locals of update(), loaded the vehicle_count that line 101 has read and
\* not yet written back, slept whether time has passed since time.sleep()
\* was called.
Loops == 1..MaxThreads

NotRunning == 0

Crashed == -1

\* line 101 between its read and its write of vehicle_count
Line101Store == 1011

\* line 193 at the second operand of its "or"
Line193LaneB == 1931

NoLoop == [pc |-> NotRunning, lane |-> "A", current_time |-> StartTime,
           green_time |-> 0, update_time |-> StartTime, is_present |-> FALSE,
           blocking_time |-> 0, loaded |-> 0, slept |-> FALSE]

NoLoops == [t \in Loops |-> NoLoop]

\* lines 142-170 (TrafficController.__init__) followed by start()
Constructed(e) ==
    /\ env = e
    /\ clock = StartTime
    /\ has_device = [l \in Lanes |-> TRUE]
    /\ road = EmptyRoad
    /\ running = TRUE
    /\ threads = 1
    /\ loops = NoLoops
    /\ lanes = [l \in Lanes |-> NewLaneMonitor]
    /\ current_signal = "RED"
    /\ signal_start_time = StartTime
    /\ current_lane = "A"
    /\ last_activity_time = StartTime
    /\ lock = "free"
    /\ pc = "loop"
    /\ current_time = StartTime
    /\ green_time = 0
    /\ rpc = "idle"
    /\ snap = EmptySnap
    /\ seen = {}
    /\ arg_count = 0
    /\ ret_green = None

\* lines 186-187: the loop test passes and current_time = time.time()
LoopTop ==
    /\ pc = "loop"
    /\ running
    /\ current_time' = clock
    /\ pc' = "update_a"
    /\ UNCHANGED <<envVars, runVars, ctrlVars, lock, green_time, readerVars,
                   callVars>>

\* The (countA, countB, signal) value the controller holds right now.
Observable ==
    <<lanes["A"].vehicle_count, lanes["B"].vehicle_count, current_signal>>

InCall == rpc \in {"acquire", "count_a", "speed_a", "mean_a", "count_b",
                   "speed_b", "mean_b", "signal", "release"}

\* History kept for the reader's call in progress (last conjunct of a step).
Track == seen' = IF InCall THEN seen \cup {Observable'} ELSE seen

\* variant: acquire never blocks
lock_always_available == TRUE

\* threading.Lock: acquire succeeds only when nobody holds it
lock_available == lock = "free"

\* Readings the sensor may deliver on this poll; a new vehicle arrives only
\* while the lane's count is below MaxVehicles.
SensorReads(l) ==
    IF has_device[l]
    THEN {r \in env.ranges :
             is_vehicle_present(TRUE, r) =>
                 (lanes[l].vehicle_present
                      \/ lanes[l].vehicle_count < env.max_vehicles)}
    ELSE {ReadFail}

\* lines 177-180: update_sensors, one lane per step
SensorUpdate ==
    /\ pc \in {"update_a", "update_b"}
    /\ LET l == IF pc = "update_a" THEN "A" ELSE "B"
       IN  \E r \in SensorReads(l) :
               LET is_present == is_vehicle_present(has_device[l], r)
               IN  IF update_raises(lanes[l], is_present, clock)
                   THEN \* nothing in control_loop catches it: the thread ends
                        /\ pc' = "crashed"
                        /\ lanes' = lanes
                   ELSE /\ pc' = IF pc = "update_a" THEN "update_b"
                                 ELSE "decide"
                        /\ lanes' = [lanes EXCEPT
                                         ![l] = update(@, is_present, clock)]
    /\ UNCHANGED <<envVars, runVars, current_signal, signal_start_time, current_lane,
                   last_activity_time, lock, current_time, green_time, rpc,
                   snap, callVars>>
    /\ Track

\* lines 192-250 up to the first lock acquisition: activity tracking, idle
\* check and the branch of the state machine taken on this tick
Decide ==
    /\ pc = "decide"
    /\ LET activity == IF has_activity THEN current_time
                       ELSE last_activity_time
           idle_duration == current_time - activity
           l == current_lane
           s == ServedLane(current_signal)
       IN  /\ last_activity_time' = activity
           /\ IF idle_expired(idle_duration)
              THEN /\ pc' = IF current_signal # "RED" THEN "idle_red"
                            ELSE "sleep"
                   /\ UNCHANGED <<current_lane, green_time>>
              ELSE IF current_signal = "RED"
              THEN IF lanes[l].vehicle_count > 0
                   THEN /\ green_time' =
                               calculate_green_time(lanes[l].vehicle_count)
                        /\ pc' = "go_green"
                        /\ UNCHANGED current_lane
                   ELSE /\ current_lane' = Other(l)
                        /\ pc' = "sleep"
                        /\ UNCHANGED green_time
              ELSE /\ green_time' =
                          calculate_green_time(lanes[s].vehicle_count)
                   /\ pc' = IF phase_expired(current_time - signal_start_time,
                                             green_time')
                            THEN "go_red" ELSE "sleep"
                   /\ UNCHANGED current_lane
    /\ UNCHANGED <<envVars, runVars, lanes, current_signal, signal_start_time, lock,
                   current_time, readerVars, callVars>>

\* variant: the lock is also taken in front of the sensor update
locked_steps_with_sensors == {"update_a", "idle_red", "go_green", "go_red"}

\* lines 201, 211, 222, 236, 247: the places where the loop enters
\* "with self.lock:"
locked_steps == {"idle_red", "go_green", "go_red"}

\* "with self.lock:" entered by the control loop (lines 201, 211, 222, 236, 247)
LoopAcquire ==
    /\ pc \in locked_steps
    /\ lock # "loop"
    /\ lock_available
    /\ lock' = "loop"
    /\ UNCHANGED <<envVars, runVars, ctrlVars, loopVars, readerVars, callVars>>

\* the body of the with-block and the release on leaving it
LoopCritical ==
    /\ lock = "loop"
    /\ pc \in {"idle_red", "go_green", "go_red"}
    /\ CASE pc = "idle_red" ->
               /\ current_signal' = "RED"
               /\ pc' = "sleep"
               /\ UNCHANGED <<signal_start_time, current_lane>>
         [] pc = "go_green" ->
               /\ current_signal' = GreenFor(current_lane)
               /\ signal_start_time' = current_time
               /\ pc' = "sleep"
               /\ UNCHANGED current_lane
         [] pc = "go_red" ->
               /\ current_signal' = after_green(current_signal)
               /\ current_lane' = Other(ServedLane(current_signal))
               /\ pc' = IF current_signal = "GREEN_A" THEN "reset_a"
                        ELSE "reset_b"
               /\ UNCHANGED signal_start_time
    /\ lock' = "free"
    /\ UNCHANGED <<envVars, runVars, lanes, last_activity_time, current_time,
                   green_time, rpc, snap, callVars>>
    /\ Track

\* lines 239 and 250: reset_count() of the lane just served, after the lock
\* has been released
ResetCount ==
    /\ pc \in {"reset_a", "reset_b"}
    /\ LET l == IF pc = "reset_a" THEN "A" ELSE "B"
       IN  lanes' = [lanes EXCEPT ![l] = reset_count(@)]
    /\ pc' = "sleep"
    /\ UNCHANGED <<envVars, runVars, current_signal, signal_start_time, current_lane,
                   last_activity_time, lock, current_time, green_time, rpc,
                   snap, callVars>>
    /\ Track

\* lines 203 and 252: time.sleep(0.1), then back to the loop test
Sleep ==
    /\ pc = "sleep"
    /\ \E d \in env.deltas :
           /\ clock + d <= env.max_time
           /\ clock' = clock + d
    /\ pc' = "loop"
    /\ UNCHANGED <<env, has_device, road, runVars, ctrlVars, lock,
                   current_time, green_time, readerVars, callVars>>

LoopNext ==
    \/ LoopTop
    \/ SensorUpdate
    \/ Decide
    \/ LoopAcquire
    \/ LoopCritical
    \/ ResetCount
    \/ Sleep

(***************************************************************************)
(* get_current_state (lines 254-262), called by the dashboard broadcaster  *)
(* (app.py, broadcast_traffic_updates).  The 'timestamp' entry is a clock  *)
(* read that touches no controller state and is left out of snap.          *)
(***************************************************************************)
\* app.py line 585: the call is made and blocks on the lock
ReaderCall ==
    /\ rpc = "idle"
    /\ rpc' = "acquire"
    /\ snap' = EmptySnap
    /\ seen' = {Observable}
    /\ UNCHANGED <<envVars, runVars, ctrlVars, lock, loopVars, callVars>>

\* line 256: with self.lock
ReaderAcquire ==
    /\ rpc = "acquire"
    /\ lock_available
    /\ lock' = "reader"
    /\ rpc' = "count_a"
    /\ UNCHANGED <<envVars, runVars, ctrlVars, loopVars, snap, seen, callVars>>

\* lines 258-259 with 129-132 and 121-125: get_state() reads vehicle_count,
\* then the average speed, of lane A and then of lane B.  An empty
\* speed_readings gives 0.0 at line 124.  Otherwise statistics.mean() (line
\* 125) iterates over the deque, snap.iter holding the deque_state the
\* iterator started from: an append by update(), which takes no lock, makes
\* the iterator's next step raise RuntimeError.  The exception leaves the
\* with-block of line 256, which releases the lock, and get_current_state()
\* returns nothing; app.py lines 593-595 catch it, sleep and call again.
ReaderReadLane ==
    /\ rpc \in {"count_a", "speed_a", "mean_a", "count_b", "speed_b", "mean_b"}
    /\ LET l == IF rpc \in {"count_a", "speed_a", "mean_a"} THEN "A" ELSE "B"
           after == IF l = "A" THEN "count_b" ELSE "signal"
           average == get_average_speed(lanes[l])
           with_speed == IF l = "A"
                         THEN [snap EXCEPT !.speedA = average, !.iter = None]
                         ELSE [snap EXCEPT !.speedB = average, !.iter = None]
       IN  CASE rpc \in {"count_a", "count_b"} ->
                   /\ snap' = IF l = "A"
                              THEN [snap EXCEPT
                                        !.laneA = lanes["A"].vehicle_count]
                              ELSE [snap EXCEPT
                                        !.laneB = lanes["B"].vehicle_count]
                   /\ rpc' = IF l = "A" THEN "speed_a" ELSE "speed_b"
                   /\ UNCHANGED <<lock, seen>>
             [] rpc \in {"speed_a", "speed_b"} ->
                   /\ IF lanes[l].speed_readings = <<>>
                      THEN /\ snap' = with_speed
                           /\ rpc' = after
                      ELSE /\ snap' = [snap EXCEPT
                                           !.iter = lanes[l].deque_state]
                           /\ rpc' = IF l = "A" THEN "mean_a" ELSE "mean_b"
                   /\ UNCHANGED <<lock, seen>>
             [] rpc \in {"mean_a", "mean_b"} ->
                   IF lanes[l].deque_state # snap.iter
                   THEN /\ rpc' = "idle"
                        /\ snap' = EmptySnap
                        /\ seen' = {}
                        /\ lock' = "free"
                   ELSE /\ snap' = with_speed
                        /\ rpc' = after
                        /\ UNCHANGED <<lock, seen>>
    /\ UNCHANGED <<envVars, runVars, ctrlVars, loopVars, callVars>>

\* line 260: 'signal': self.current_signal
ReaderReadSignal ==
    /\ rpc = "signal"
    /\ snap' = [snap EXCEPT !.signal = current_signal]
    /\ rpc' = "release"
    /\ UNCHANGED <<envVars, runVars, ctrlVars, lock, loopVars, seen, callVars>>

\* leaving the with-block: the lock is released and the dict returned
ReaderReturn ==
    /\ rpc = "release"
    /\ lock' = "free"
    /\ rpc' = "returned"
    /\ UNCHANGED <<envVars, runVars, ctrlVars, loopVars, snap, seen, callVars>>

\* app.py line 588: the snapshot is emitted and dropped
ReaderEmit ==
    /\ rpc = "returned"
    /\ rpc' = "idle"
    /\ snap' = EmptySnap
    /\ seen' = {}
    /\ UNCHANGED <<envVars, runVars, ctrlVars, lock, loopVars, callVars>>

ReaderNext ==
    \/ ReaderCall
    \/ ReaderAcquire
    \/ ReaderReadLane
    \/ ReaderReadSignal
    \/ ReaderReturn
    \/ ReaderEmit

\* a direct call calculate_green_time(arg_count)
CallGreenTime ==
    /\ ret_green = None
    /\ ret_green' = calculate_green_time(arg_count)
    /\ UNCHANGED <<envVars, runVars, ctrlVars, lock, loopVars, readerVars, arg_count>>

(***************************************************************************)
(* One LaneMonitor driven call by call, as update_sensors (lines 177-180)  *)
(* and the expiry branches (lines 239, 250) drive lane A: update() with    *)
(* what the sensor reports of the road at time.time(), and reset_count().  *)
(* road is the scene in front of the sensor: whether a vehicle occludes    *)
(* it, how many update() calls and how many failed reads the scene has     *)
(* seen since it last changed or the count was reset, and the count the    *)
(* vehicle found when it arrived.                                          *)
(***************************************************************************)
LaneWidths == {4, 555, 2500, 5000}

\* what a read of sensor.range can deliver for the scene: 84 cm under a
\* vehicle, 100 or 85 cm on the empty road, or an exception
RoadReads ==
    {r \in env.ranges :
        \/ r = ReadFail
        \/ road.occluded /\ baseline_distance - r \div 10 > threshold_cm
        \/ ~road.occluded /\ baseline_distance - r \div 10 <= threshold_cm}

VehicleArrives ==
    /\ ~road.occluded
    /\ lanes["A"].vehicle_count < env.max_vehicles
    /\ road' = [occluded |-> TRUE, polls |-> 0, fails |-> 0,
                base |-> lanes["A"].vehicle_count]
    /\ UNCHANGED <<env, clock, has_device, runVars, ctrlVars, lock, loopVars,
                   readerVars, callVars>>

VehicleLeaves ==
    /\ road.occluded
    /\ road' = [occluded |-> FALSE, polls |-> 0, fails |-> 0,
                base |-> lanes["A"].vehicle_count]
    /\ UNCHANGED <<env, clock, has_device, runVars, ctrlVars, lock, loopVars,
                   readerVars, callVars>>

\* line 179: self.lane_a.update(), the read delivering range_mm
LanePoll(range_mm) ==
    /\ range_mm \in RoadReads
    /\ road.polls < MaxPolls
    /\ range_mm = ReadFail => road.fails < MaxFails
    /\ lanes["A"].vehicle_count <= env.max_vehicles
    /\ \/ Len(lanes["A"].speed_readings) < env.max_readings
       \/ is_vehicle_present(has_device["A"], range_mm)
    /\ LET is_present == is_vehicle_present(has_device["A"], range_mm)
       IN  IF update_raises(lanes["A"], is_present, clock)
           THEN pc' = "crashed" /\ lanes' = lanes
           ELSE /\ pc' = pc
                /\ lanes' = [lanes EXCEPT
                                 !["A"] = update(@, is_present, clock)]
    /\ road' = [road EXCEPT !.polls = @ + 1,
                            !.fails = IF range_mm = ReadFail THEN @ + 1 ELSE @]
    /\ UNCHANGED <<env, clock, has_device, runVars, current_signal,
                   signal_start_time, current_lane, last_activity_time, lock,
                   current_time, green_time, readerVars, callVars>>

\* line 239: self.lane_a.reset_count()
LaneReset ==
    /\ lanes' = [lanes EXCEPT !["A"] = reset_count(@)]
    /\ road' = [road EXCEPT !.polls = 0, !.base = 0]
    /\ UNCHANGED <<env, clock, has_device, runVars, current_signal,
                   signal_start_time, current_lane, last_activity_time, lock,
                   loopVars, readerVars, callVars>>

\* time.time() moves on between two calls
LaneTick ==
    /\ \E d \in env.deltas :
           /\ clock + d <= env.max_time
           /\ clock' = clock + d
    /\ UNCHANGED <<env, has_device, road, runVars, ctrlVars, lock, loopVars,
                   readerVars, callVars>>

\* time.time() is the wall clock: it can be set back between two calls
LaneClockBack ==
    /\ \E d \in env.deltas :
           /\ clock - d >= StartTime
           /\ clock' = clock - d
    /\ UNCHANGED <<env, has_device, road, runVars, ctrlVars, lock, loopVars,
                   readerVars, callVars>>

\* One LaneMonitor in the rhythm of control_loop: lane_a.update() (line 179)
\* at pc "update_a", then reset_count() if the tick calls it (line 239) and
\* time.sleep(0.1) (line 252) at pc "sleep".
\* line 179: self.lane_a.update(), the read delivering range_mm
TenthPoll(range_mm) ==
    /\ pc = "update_a"
    /\ range_mm \in RoadReads
    /\ road.polls < MaxPolls
    /\ range_mm = ReadFail => road.fails < MaxFails
    /\ LET is_present == is_vehicle_present(has_device["A"], range_mm)
       IN  IF update_raises(lanes["A"], is_present, clock)
           THEN pc' = "crashed" /\ lanes' = lanes
           ELSE /\ pc' = "sleep"
                /\ lanes' = [lanes EXCEPT
                                 !["A"] = update(@, is_present, clock)]
    /\ road' = [road EXCEPT !.polls = @ + 1,
                            !.fails = IF range_mm = ReadFail THEN @ + 1 ELSE @]
    /\ UNCHANGED <<env, clock, has_device, runVars, current_signal,
                   signal_start_time, current_lane, last_activity_time, lock,
                   current_time, green_time, readerVars, callVars>>

\* line 239: self.lane_a.reset_count(), between update() and the sleep
TenthReset ==
    /\ pc = "sleep"
    /\ LaneReset

\* line 252: time.sleep(0.1); the next update() follows it
TenthSleep ==
    /\ pc = "sleep"
    /\ \E d \in env.deltas :
           /\ clock + d <= env.max_time
           /\ clock' = clock + d
    /\ pc' = "update_a"
    /\ UNCHANGED <<env, has_device, road, runVars, ctrlVars, lock,
                   current_time, green_time, readerVars, callVars>>

\* update() calls never less than 100 ms apart, and reset_count()
TenthNext ==
    \/ VehicleArrives
    \/ VehicleLeaves
    \/ \E r \in Reads : TenthPoll(r)
    \/ TenthReset
    \/ TenthSleep

\* the same calls without reset_count() and without the clock set back
HistoryNext ==
    \/ VehicleArrives
    \/ VehicleLeaves
    \/ \E r \in Reads : LanePoll(r)
    \/ LaneTick

\* the control loop with the wall clock set back at any moment
RobustNext == LoopNext \/ LaneClockBack

LaneNext ==
    \/ VehicleArrives
    \/ VehicleLeaves
    \/ \E r \in Reads : LanePoll(r)
    \/ LaneReset
    \/ LaneTick
    \/ LaneClockBack

(***************************************************************************)
(* stop() (lines 271-274) and the loop test that sees it (line 186)        *)
(***************************************************************************)
\* variant: running is also tested between the locked block of a green
\* expiry and the count reset
exit_points_mid_expiry == {"loop", "reset_a", "reset_b"}

\* variant: the loop never reads self.running
exit_points_none == {}

\* line 186: the one place where the loop reads self.running
exit_points == {"loop"}

\* line 186: while self.running is false, control_loop returns
LoopExit ==
    /\ pc \in exit_points
    /\ ~running
    /\ pc' = "done"
    /\ threads' = threads - 1
    /\ UNCHANGED <<envVars, running, loops, ctrlVars, lock, current_time,
                   green_time, readerVars, callVars>>

\* variant: stopping also puts the signal to RED
stop_forces_red ==
    /\ running
    /\ running' = FALSE
    /\ current_signal' = "RED"
    /\ UNCHANGED <<envVars, threads, loops, lanes, signal_start_time,
                   current_lane, last_activity_time, lock, loopVars,
                   readerVars, callVars>>

\* lines 271-274
stop ==
    /\ running
    /\ running' = FALSE
    /\ UNCHANGED <<envVars, threads, loops, ctrlVars, lock, loopVars,
                   readerVars, callVars>>

StopNext == LoopNext \/ LoopExit \/ stop

(***************************************************************************)
(* start() (lines 264-269) and the control loops it spawns.  start() sets  *)
(* running and starts a control_loop thread whether or not one is alive,   *)
(* so several loops can run on the same lanes, signal and lock.  Nothing   *)
(* but the with-blocks is protected, so each loop is followed statement    *)
(* by statement: loops[t].pc is the line the thread executes next, and     *)
(* each step makes one statement's reads and writes of shared state.       *)
(* time.sleep() waits for the clock, which TimePasses moves.               *)
(***************************************************************************)
\* lines 264-269: the new thread takes the first free place in loops
start ==
    /\ threads < MaxThreads
    /\ \E t \in Loops :
           /\ loops[t].pc = NotRunning
           /\ \A u \in Loops : u < t => loops[u].pc # NotRunning
           /\ loops' = [loops EXCEPT ![t] = [NoLoop EXCEPT !.pc = 186]]
    /\ running' = TRUE
    /\ threads' = threads + 1
    /\ UNCHANGED <<envVars, ctrlVars, lock, loopVars, readerVars, callVars>>

\* what no statement of control_loop writes
outsideVars == <<env, has_device, road, running, loopVars, readerVars,
                 callVars>>

\* thread t goes on at line next
Goto(t, next) == loops' = [loops EXCEPT ![t].pc = next]

\* update() returns and its locals are gone: lane_b.update() (line 180)
\* comes after lane A's, line 193 after lane B's
AfterUpdate(t) ==
    LET back == [loops[t] EXCEPT !.update_time = NoLoop.update_time,
                                 !.is_present = NoLoop.is_present,
                                 !.blocking_time = NoLoop.blocking_time]
    IN  IF loops[t].lane = "A"
        THEN loops' = [loops EXCEPT ![t] = [back EXCEPT !.pc = 94,
                                                        !.lane = "B"]]
        ELSE loops' = [loops EXCEPT ![t] = [back EXCEPT !.pc = 193,
                                                        !.lane = "A"]]

\* time.time() moves on; every sleep in progress has then lasted long enough
TimePasses ==
    /\ \E d \in env.deltas :
           /\ clock + d <= env.max_time
           /\ clock' = clock + d
    /\ loops' = [t \in Loops |->
                    IF loops[t].pc \in {203, 252}
                    THEN [loops[t] EXCEPT !.slept = TRUE] ELSE loops[t]]
    /\ UNCHANGED <<env, has_device, road, running, threads, ctrlVars, lock,
                   loopVars, readerVars, callVars>>

\* lines 186-187: the loop test passes and current_time = time.time();
\* line 190 calls lane_a.update()
ThreadLoopTop(t) ==
    /\ loops[t].pc = 186
    /\ running
    /\ loops' = [loops EXCEPT ![t].pc = 94, ![t].lane = "A",
                              ![t].current_time = clock]
    /\ UNCHANGED <<clock, threads, ctrlVars, lock, outsideVars>>

\* line 186: running is false and control_loop returns
ThreadLoopExit(t) ==
    /\ loops[t].pc = 186
    /\ ~running
    /\ loops' = [loops EXCEPT ![t] = NoLoop]
    /\ threads' = threads - 1
    /\ UNCHANGED <<clock, ctrlVars, lock, outsideVars>>

\* line 94: update() reads the clock
ThreadUpdateClock(t) ==
    /\ loops[t].pc = 94
    /\ loops' = [loops EXCEPT ![t].pc = 95, ![t].update_time = clock]
    /\ UNCHANGED <<clock, threads, ctrlVars, lock, outsideVars>>

\* line 95: is_present = self.sensor.is_vehicle_present()
ThreadSensorRead(t) ==
    /\ loops[t].pc = 95
    /\ LET l == loops[t].lane
       IN  \E r \in SensorReads(l) :
               loops' = [loops EXCEPT
                             ![t].pc = 98,
                             ![t].is_present =
                                 is_vehicle_present(has_device[l], r)]
    /\ UNCHANGED <<clock, threads, ctrlVars, lock, outsideVars>>

\* lines 98 and 106: the edge tests; whichever of them gets past is_present
\* reads vehicle_present
ThreadUpdateTest(t) ==
    /\ loops[t].pc = 98
    /\ LET l == loops[t].lane
       IN  IF rising_edge(lanes[l], loops[t].is_present) THEN Goto(t, 99)
           ELSE IF falling_edge(lanes[l], loops[t].is_present)
           THEN Goto(t, 107)
           ELSE AfterUpdate(t)
    /\ UNCHANGED <<clock, threads, ctrlVars, lock, outsideVars>>

\* line 99: self.entry_time = current_time
ThreadEntryTime(t) ==
    /\ loops[t].pc = 99
    /\ lanes' = [lanes EXCEPT ![loops[t].lane].entry_time =
                                  loops[t].update_time]
    /\ Goto(t, 100)
    /\ UNCHANGED <<clock, threads, current_signal, signal_start_time,
                   current_lane, last_activity_time, lock, outsideVars>>

\* line 100: self.vehicle_present = True
ThreadEntryPresent(t) ==
    /\ loops[t].pc = 100
    /\ lanes' = [lanes EXCEPT ![loops[t].lane].vehicle_present = TRUE]
    /\ Goto(t, 101)
    /\ UNCHANGED <<clock, threads, current_signal, signal_start_time,
                   current_lane, last_activity_time, lock, outsideVars>>

\* line 101, self.vehicle_count += 1: the count is read
ThreadEntryCountLoad(t) ==
    /\ loops[t].pc = 101
    /\ loops' = [loops EXCEPT
                     ![t].pc = Line101Store,
                     ![t].loaded = lanes[loops[t].lane].vehicle_count]
    /\ UNCHANGED <<clock, threads, ctrlVars, lock, outsideVars>>

\* line 101: one more than the count read is written
ThreadEntryCount(t) ==
    /\ loops[t].pc = Line101Store
    /\ lanes' = [lanes EXCEPT ![loops[t].lane].vehicle_count =
                                  loops[t].loaded + 1]
    /\ loops' = [loops EXCEPT ![t].pc = 102, ![t].loaded = 0]
    /\ UNCHANGED <<clock, threads, current_signal, signal_start_time,
                   current_lane, last_activity_time, lock, outsideVars>>

\* line 102: self.last_vehicle_time = current_time; update() returns
ThreadEntryLast(t) ==
    /\ loops[t].pc = 102
    /\ lanes' = [lanes EXCEPT ![loops[t].lane].last_vehicle_time =
                                  loops[t].update_time]
    /\ AfterUpdate(t)
    /\ UNCHANGED <<clock, threads, current_signal, signal_start_time,
                   current_lane, last_activity_time, lock, outsideVars>>

\* line 107: if self.entry_time
ThreadExitTest(t) ==
    /\ loops[t].pc = 107
    /\ IF truthy(lanes[loops[t].lane].entry_time) THEN Goto(t, 108)
       ELSE Goto(t, 118)
    /\ UNCHANGED <<clock, threads, ctrlVars, lock, outsideVars>>

\* lines 108-114: entry_time is read again for the subtraction, which
\* raises a TypeError when another loop has set it to None meanwhile; the
\* division raises when it is reached with blocking_time 0.  Nothing in
\* control_loop catches either: the thread ends.
ThreadExitBlocking(t) ==
    /\ loops[t].pc = 108
    /\ LET lane == lanes[loops[t].lane]
           blocking_time == loops[t].update_time - lane.entry_time
       IN  IF \/ lane.entry_time = None
              \/ speed_guard(blocking_time) /\ blocking_time = 0
           THEN Goto(t, Crashed)
           ELSE IF /\ speed_guard(blocking_time)
                   /\ speed_plausible(speed_kmh(lane.lane_width_cm,
                                                blocking_time))
           THEN loops' = [loops EXCEPT ![t].pc = 115,
                                       ![t].blocking_time = blocking_time]
           ELSE Goto(t, 118)
    /\ UNCHANGED <<clock, threads, ctrlVars, lock, outsideVars>>

\* lines 115, 118 and 119: the writes of the falling edge, one statement
\* per step; update() returns after line 119
ThreadExitWrite(t) ==
    /\ loops[t].pc \in {115, 118, 119}
    /\ LET l == loops[t].lane
       IN  CASE loops[t].pc = 115 ->
                   /\ lanes' = [lanes EXCEPT
                                    ![l].speed_readings =
                                        DequeAppend(@,
                                            speed_kmh(lanes[l].lane_width_cm,
                                                      loops[t].blocking_time)),
                                    ![l].deque_state = @ + 1]
                   /\ Goto(t, 118)
             [] loops[t].pc = 118 ->
                   /\ lanes' = [lanes EXCEPT ![l].vehicle_present = FALSE]
                   /\ Goto(t, 119)
             [] loops[t].pc = 119 ->
                   /\ lanes' = [lanes EXCEPT ![l].entry_time = None]
                   /\ AfterUpdate(t)
    /\ UNCHANGED <<clock, threads, current_signal, signal_start_time,
                   current_lane, last_activity_time, lock, outsideVars>>

\* line 193: lane A's count is read, and lane B's when lane A's is 0
ThreadActivityTest(t) ==
    /\ loops[t].pc \in {193, Line193LaneB}
    /\ IF loops[t].pc = 193
       THEN IF lanes["A"].vehicle_count > 0 THEN Goto(t, 194)
            ELSE Goto(t, Line193LaneB)
       ELSE IF lanes["B"].vehicle_count > 0 THEN Goto(t, 194)
            ELSE Goto(t, 197)
    /\ UNCHANGED <<clock, threads, ctrlVars, lock, outsideVars>>

\* line 194: self.last_activity_time = current_time
ThreadActivityWrite(t) ==
    /\ loops[t].pc = 194
    /\ last_activity_time' = loops[t].current_time
    /\ Goto(t, 197)
    /\ UNCHANGED <<clock, threads, lanes, current_signal, signal_start_time,
                   current_lane, lock, outsideVars>>

\* lines 197-198: last_activity_time is read and the idle timeout tested
ThreadIdleTest(t) ==
    /\ loops[t].pc = 197
    /\ IF idle_expired(loops[t].current_time - last_activity_time)
       THEN Goto(t, 199) ELSE Goto(t, 207)
    /\ UNCHANGED <<clock, threads, ctrlVars, lock, outsideVars>>

\* lines 199, 207, 230 and 241: one test of self.current_signal
ThreadSignalTest(t) ==
    /\ loops[t].pc \in {199, 207, 230, 241}
    /\ CASE loops[t].pc = 199 ->
                IF current_signal # "RED" THEN Goto(t, 201)
                ELSE Goto(t, 203)
         [] loops[t].pc = 207 ->
                IF current_signal = "RED" THEN Goto(t, 208)
                ELSE Goto(t, 230)
         [] loops[t].pc = 230 ->
                IF current_signal = "GREEN_A" THEN Goto(t, 231)
                ELSE Goto(t, 241)
         [] loops[t].pc = 241 ->
                IF current_signal = "GREEN_B" THEN Goto(t, 242)
                ELSE Goto(t, 252)
    /\ UNCHANGED <<clock, threads, ctrlVars, lock, outsideVars>>

\* line 208: if self.current_lane == 'A'
ThreadLaneTest(t) ==
    /\ loops[t].pc = 208
    /\ IF current_lane = "A" THEN Goto(t, 209) ELSE Goto(t, 220)
    /\ UNCHANGED <<clock, threads, ctrlVars, lock, outsideVars>>

\* lines 209 and 220: the count of the branch's lane is read
ThreadCountTest(t) ==
    /\ loops[t].pc \in {209, 220}
    /\ IF loops[t].pc = 209
       THEN IF lanes["A"].vehicle_count > 0 THEN Goto(t, 210)
            ELSE Goto(t, 216)
       ELSE IF lanes["B"].vehicle_count > 0 THEN Goto(t, 221)
            ELSE Goto(t, 227)
    /\ UNCHANGED <<clock, threads, ctrlVars, lock, outsideVars>>

\* lines 210, 221, 231 and 242: green_time from the count of the branch's
\* lane
ThreadGreenTime(t) ==
    /\ loops[t].pc \in {210, 221, 231, 242}
    /\ LET l == IF loops[t].pc \in {210, 231} THEN "A" ELSE "B"
       IN  loops' = [loops EXCEPT
                         ![t].pc = @ + 1,
                         ![t].green_time =
                             calculate_green_time(lanes[l].vehicle_count)]
    /\ UNCHANGED <<clock, threads, ctrlVars, lock, outsideVars>>

\* lines 232-234 and 243-245: signal_start_time is read and the phase
\* tested
ThreadElapsed(t) ==
    /\ loops[t].pc \in {232, 243}
    /\ IF phase_expired(loops[t].current_time - signal_start_time,
                        loops[t].green_time)
       THEN Goto(t, loops[t].pc + 4)
       ELSE Goto(t, 252)
    /\ UNCHANGED <<clock, threads, ctrlVars, lock, outsideVars>>

\* lines 201, 211, 222, 236 and 247: "with self.lock:" is entered
ThreadAcquire(t) ==
    /\ loops[t].pc \in {201, 211, 222, 236, 247}
    /\ lock_available
    /\ lock' = "loop"
    /\ Goto(t, loops[t].pc + 1)
    /\ UNCHANGED <<clock, threads, ctrlVars, outsideVars>>

\* lines 202, 212, 223, 237 and 248: the signal of the branch is written;
\* line 202 is the last of its with-block and releases the lock
ThreadSignalWrite(t) ==
    /\ loops[t].pc \in {202, 212, 223, 237, 248}
    /\ current_signal' = CASE loops[t].pc = 212 -> "GREEN_A"
                           [] loops[t].pc = 223 -> "GREEN_B"
                           [] OTHER -> "RED"
    /\ lock' = IF loops[t].pc = 202 THEN "free" ELSE lock
    /\ Goto(t, loops[t].pc + 1)
    /\ UNCHANGED <<clock, threads, lanes, signal_start_time, current_lane,
                   last_activity_time, outsideVars>>

\* lines 213 and 224: self.signal_start_time = current_time, the last
\* statement of the with-block; lines 214 and 225 print and the loop goes
\* on to the sleep
ThreadStartTimeWrite(t) ==
    /\ loops[t].pc \in {213, 224}
    /\ signal_start_time' = loops[t].current_time
    /\ lock' = "free"
    /\ Goto(t, 252)
    /\ UNCHANGED <<clock, threads, lanes, current_signal, current_lane,
                   last_activity_time, outsideVars>>

\* lines 216 and 227 (no lock held), 238 and 249 (the last statement of the
\* with-block): the eligible lane of the branch is written
ThreadLaneWrite(t) ==
    /\ loops[t].pc \in {216, 227, 238, 249}
    /\ current_lane' = IF loops[t].pc \in {216, 238} THEN "B" ELSE "A"
    /\ IF loops[t].pc \in {238, 249}
       THEN lock' = "free" /\ Goto(t, loops[t].pc + 1)
       ELSE lock' = lock /\ Goto(t, 252)
    /\ UNCHANGED <<clock, threads, lanes, current_signal, signal_start_time,
                   last_activity_time, outsideVars>>

\* lines 239 and 250: reset_count() of the branch's lane
ThreadResetCount(t) ==
    /\ loops[t].pc \in {239, 250}
    /\ LET l == IF loops[t].pc = 239 THEN "A" ELSE "B"
       IN  lanes' = [lanes EXCEPT ![l] = reset_count(@)]
    /\ Goto(t, 252)
    /\ UNCHANGED <<clock, threads, current_signal, signal_start_time,
                   current_lane, last_activity_time, lock, outsideVars>>

\* lines 203 and 252: time.sleep(0.1) returns once time has passed since it
\* was called, and the loop is back at its test
ThreadSleep(t) ==
    /\ loops[t].pc \in {203, 252}
    /\ loops[t].slept
    /\ loops' = [loops EXCEPT ![t].pc = 186, ![t].slept = FALSE]
    /\ UNCHANGED <<clock, threads, ctrlVars, lock, outsideVars>>

ThreadNext(t) ==
    \/ ThreadLoopTop(t)
    \/ ThreadLoopExit(t)
    \/ ThreadUpdateClock(t)
    \/ ThreadSensorRead(t)
    \/ ThreadUpdateTest(t)
    \/ ThreadEntryTime(t)
    \/ ThreadEntryPresent(t)
    \/ ThreadEntryCountLoad(t)
    \/ ThreadEntryCount(t)
    \/ ThreadEntryLast(t)
    \/ ThreadExitTest(t)
    \/ ThreadExitBlocking(t)
    \/ ThreadExitWrite(t)
    \/ ThreadActivityTest(t)
    \/ ThreadActivityWrite(t)
    \/ ThreadIdleTest(t)
    \/ ThreadSignalTest(t)
    \/ ThreadLaneTest(t)
    \/ ThreadCountTest(t)
    \/ ThreadGreenTime(t)
    \/ ThreadElapsed(t)
    \/ ThreadAcquire(t)
    \/ ThreadSignalWrite(t)
    \/ ThreadStartTimeWrite(t)
    \/ ThreadLaneWrite(t)
    \/ ThreadResetCount(t)
    \/ ThreadSleep(t)

StartNext ==
    \/ \E t \in Loops : ThreadNext(t)
    \/ TimePasses
    \/ stop
    \/ start

\* the control loop as far as it gets when no vehicle is ever detected: the
\* signal is never changed, so no lock is taken and no count reset
QuietLoopNext ==
    \/ LoopTop
    \/ SensorUpdate
    \/ Decide
    \/ Sleep

Next == LoopNext \/ ReaderNext

(***************************************************************************)
(* Specifications.                                                         *)
(*   Spec          control loop and a concurrent reader (SnapEnv)          *)
(*   StartSpec     start() and stop() called in any order on a controller  *)
(*                 not yet started, up to MaxThreads control loops, each   *)
(*                 followed statement by statement (StartEnv)              *)
(*   ServeSpec     control loop alone, kept ticking, from the end of a     *)
(*                 green phase with 16 vehicles waiting (ServeEnv)         *)
(*   FairStopSpec  StopSpec under fair scheduling of the control thread    *)
(*                 (RobustEnv)                                             *)
(*   FairSpec      control loop and reader under fair scheduling of the    *)
(*                 two threads (RobustEnv)                                 *)
(*   LoopSpec      control loop alone, no reader calling (TimingEnv and    *)
(*                 IdleEnv)                                                *)
(*   GreenTimeSpec calculate_green_time applied to counts 0..MaxArg        *)
(*   NoSensorSpec  control loop with both sensors unavailable (DeadEnv)    *)
(*   StopSpec      control loop with stop() called at any moment (SnapEnv) *)
(*   RobustSpec    control loop with lane widths RobustWidths, sensors     *)
(*                 with and without a device, the clock set back (RobustEnv)*)
(*   HistorySpec   one LaneMonitor with speed_readings at its capacity      *)
(*                 (HistoryEnv)                                            *)
(*   TenthSpec     one LaneMonitor of the configured width, update()       *)
(*                 calls at least 100 ms apart (TenthEnv)                  *)
(*   LaneSpec      one LaneMonitor under update() and reset_count() calls  *)
(*                 (LaneEnv, lane widths LaneWidths)                       *)
(***************************************************************************)
Init == Constructed(SnapEnv)

LoopInit == \E e \in {TimingEnv, IdleEnv} : Constructed(e)

GreenTimeInit ==
    /\ env = SnapEnv
    /\ clock = StartTime
    /\ has_device = [l \in Lanes |-> TRUE]
    /\ road = EmptyRoad
    /\ running = TRUE
    /\ threads = 1
    /\ loops = NoLoops
    /\ lanes = [l \in Lanes |-> NewLaneMonitor]
    /\ current_signal = "RED"
    /\ signal_start_time = StartTime
    /\ current_lane = "A"
    /\ last_activity_time = StartTime
    /\ lock = "free"
    /\ pc = "loop"
    /\ current_time = StartTime
    /\ green_time = 0
    /\ rpc = "idle"
    /\ snap = EmptySnap
    /\ seen = {}
    /\ arg_count \in 0..MaxArg
    /\ ret_green = None

\* a controller started with each sensor either without a device object
\* (lines 15, 27-30) or with one whose every read fails (DeadEnv)
NoSensorInit ==
    /\ env = DeadEnv
    /\ clock = StartTime
    /\ has_device \in [Lanes -> BOOLEAN]
    /\ road = EmptyRoad
    /\ running = TRUE
    /\ threads = 1
    /\ loops = NoLoops
    /\ lanes = [l \in Lanes |-> NewLaneMonitor]
    /\ current_signal = "RED"
    /\ signal_start_time = StartTime
    /\ current_lane = "A"
    /\ last_activity_time = StartTime
    /\ lock = "free"
    /\ pc = "loop"
    /\ current_time = StartTime
    /\ green_time = 0
    /\ rpc = "idle"
    /\ snap = EmptySnap
    /\ seen = {}
    /\ arg_count = 0
    /\ ret_green = None

\* lines 142-170: a controller constructed and not started
StartInit ==
    /\ env = StartEnv
    /\ clock = StartTime
    /\ has_device = [l \in Lanes |-> TRUE]
    /\ road = EmptyRoad
    /\ running = FALSE
    /\ threads = 0
    /\ loops = NoLoops
    /\ lanes = [l \in Lanes |-> NewLaneMonitor]
    /\ current_signal = "RED"
    /\ signal_start_time = StartTime
    /\ current_lane = "A"
    /\ last_activity_time = StartTime
    /\ lock = "free"
    /\ pc = "none"
    /\ current_time = StartTime
    /\ green_time = 0
    /\ rpc = "idle"
    /\ snap = EmptySnap
    /\ seen = {}
    /\ arg_count = 0
    /\ ret_green = None

RobustWidths == {0, 4}

\* a controller started with any lane width, 0 included, and each sensor
\* with or without a device object
RobustInit ==
    /\ env = RobustEnv
    /\ clock = StartTime
    /\ has_device \in [Lanes -> BOOLEAN]
    /\ road = EmptyRoad
    /\ running = TRUE
    /\ threads = 1
    /\ loops = NoLoops
    /\ \E w \in RobustWidths :
           lanes = [l \in Lanes |->
                       [NewLaneMonitor EXCEPT !.lane_width_cm = w]]
    /\ current_signal = "RED"
    /\ signal_start_time = StartTime
    /\ current_lane = "A"
    /\ last_activity_time = StartTime
    /\ lock = "free"
    /\ pc = "loop"
    /\ current_time = StartTime
    /\ green_time = 0
    /\ rpc = "idle"
    /\ snap = EmptySnap
    /\ seen = {}
    /\ arg_count = 0
    /\ ret_green = None

\* the speed_readings left by n vehicles that blocked a 5000 cm sensor for
\* 3 to 17 s each, one after the other (60 down to 10.6 km/h, all accepted)
HistoryOf(n, k) ==
    [i \in 1..n |-> speed_kmh(5000, 3 + ((i + k) % 15))]

\* a LaneMonitor of a 5000 cm sensor whose history holds SpeedCapacity - 1
\* or SpeedCapacity estimates, its count reset
HistoryInit ==
    /\ env = HistoryEnv
    /\ clock = StartTime
    /\ has_device = [l \in Lanes |-> TRUE]
    /\ road = EmptyRoad
    /\ running = FALSE
    /\ threads = 0
    /\ loops = NoLoops
    /\ \E n \in (SpeedCapacity - 1)..SpeedCapacity : \E k \in 0..2 :
           lanes = [l \in Lanes |->
                       [NewLaneMonitor EXCEPT
                            !.lane_width_cm = 5000,
                            !.speed_readings =
                                IF l = "A" THEN HistoryOf(n, k) ELSE <<>>,
                            !.deque_state = IF l = "A" THEN n ELSE 0]]
    /\ current_signal = "RED"
    /\ signal_start_time = StartTime
    /\ current_lane = "A"
    /\ last_activity_time = StartTime
    /\ lock = "free"
    /\ pc = "none"
    /\ current_time = StartTime
    /\ green_time = 0
    /\ rpc = "idle"
    /\ snap = EmptySnap
    /\ seen = {}
    /\ arg_count = 0
    /\ ret_green = None

\* a controller constructed with lane_width_cm = w and not started
\* lines 146-147: a LaneMonitor on a sensor of the configured width
TenthInit ==
    /\ env = TenthEnv
    /\ clock = StartTime
    /\ has_device = [l \in Lanes |-> TRUE]
    /\ road = EmptyRoad
    /\ running = FALSE
    /\ threads = 0
    /\ loops = NoLoops
    /\ lanes = [l \in Lanes |-> NewLaneMonitor]
    /\ current_signal = "RED"
    /\ signal_start_time = StartTime
    /\ current_lane = "A"
    /\ last_activity_time = StartTime
    /\ lock = "free"
    /\ pc = "update_a"
    /\ current_time = StartTime
    /\ green_time = 0
    /\ rpc = "idle"
    /\ snap = EmptySnap
    /\ seen = {}
    /\ arg_count = 0
    /\ ret_green = None

LaneInit ==
    /\ env = LaneEnv
    /\ clock = StartTime
    /\ has_device = [l \in Lanes |-> TRUE]
    /\ road = EmptyRoad
    /\ running = FALSE
    /\ threads = 0
    /\ loops = NoLoops
    /\ \E w \in LaneWidths :
           lanes = [l \in Lanes |->
                       [NewLaneMonitor EXCEPT !.lane_width_cm = w]]
    /\ current_signal = "RED"
    /\ signal_start_time = StartTime
    /\ current_lane = "A"
    /\ last_activity_time = StartTime
    /\ lock = "free"
    /\ pc = "none"
    /\ current_time = StartTime
    /\ green_time = 0
    /\ rpc = "idle"
    /\ snap = EmptySnap
    /\ seen = {}
    /\ arg_count = 0
    /\ ret_green = None

Spec == Init /\ [][Next]_vars

LoopSpec == LoopInit /\ [][LoopNext]_vars

GreenTimeSpec == GreenTimeInit /\ [][CallGreenTime]_vars

LaneSpec == LaneInit /\ [][LaneNext]_vars

TenthSpec == TenthInit /\ [][TenthNext]_vars

HistorySpec == HistoryInit /\ [][HistoryNext]_vars

RobustSpec == RobustInit /\ [][RobustNext]_vars

NoSensorSpec == NoSensorInit /\ [][QuietLoopNext]_vars

StopSpec == Init /\ [][StopNext]_vars

StartSpec == StartInit /\ [][StartNext]_vars

\* The controller 31 ticks of 1 s after start(), the loop back at its test:
\* lane A was green from clock 1 with vehicles entering at 1, 3, ..., 19
\* (green time 30), vehicles entered lane B at 1, 3, ..., 31, and the tick
\* at clock 31 ended lane A's phase (lines 234-239).
ServeStart == 32

ServeInit ==
    /\ env = ServeEnv
    /\ clock = ServeStart
    /\ has_device = [l \in Lanes |-> TRUE]
    /\ road = EmptyRoad
    /\ running = TRUE
    /\ threads = 1
    /\ loops = NoLoops
    /\ lanes = [l \in Lanes |->
                   IF l = "A"
                   THEN [NewLaneMonitor EXCEPT !.last_vehicle_time = 19]
                   ELSE [NewLaneMonitor EXCEPT !.vehicle_count = 16,
                                               !.vehicle_present = TRUE,
                                               !.entry_time = 31,
                                               !.last_vehicle_time = 31]]
    /\ current_signal = "RED"
    /\ signal_start_time = StartTime
    /\ current_lane = "B"
    /\ last_activity_time = 31
    /\ lock = "free"
    /\ pc = "loop"
    /\ current_time = 31
    /\ green_time = max_green_time
    /\ rpc = "idle"
    /\ snap = EmptySnap
    /\ seen = {}
    /\ arg_count = 0
    /\ ret_green = None

\* the control loop alone (ServeEnv), kept ticking: whatever step the
\* thread is at, it is eventually taken; every step of the loop changes pc
\* or lock
ServeSpec ==
    /\ ServeInit
    /\ [][LoopNext]_vars
    /\ WF_<<pc, lock>>(LoopNext)

\* StopSpec (RobustEnv) with the control thread scheduled: whatever step
\* of control_loop comes next is eventually taken
FairStopSpec ==
    /\ Constructed(RobustEnv)
    /\ [][StopNext]_vars
    /\ WF_<<pc, lock>>(LoopNext \/ LoopExit)

\* control loop and reader (RobustEnv) with the threads scheduled: the control loop leaves a with-block
\* it has entered, the caller of get_current_state() runs on, and gets the
\* lock if it becomes free again and again (the loop holds it for a few
\* assignments per tick and sleeps between ticks)
FairSpec ==
    /\ Constructed(RobustEnv)
    /\ [][Next]_vars
    /\ WF_lock(LoopCritical)
    /\ SF_rpc(ReaderAcquire)
    /\ WF_rpc(ReaderReadLane)
    /\ WF_rpc(ReaderReadSignal)
    /\ WF_rpc(ReaderReturn)

(***************************************************************************)
(* Properties.                                                             *)
(***************************************************************************)
CountOf(l) == lanes[l].vehicle_count
Green == {"GREEN_A", "GREEN_B"}

\* C1: in every reachable state of the control loop current_signal is one of
\* RED, GREEN_A, GREEN_B, so at most one lane is green.
C1_SignalLegal == current_signal \in Signals

\* lane B is green while lane A has waiting vehicles too
C1_Witness ==
    /\ current_signal = "GREEN_B"
    /\ CountOf("A") > 0
    /\ CountOf("B") > 0

Clamp(x, lo, hi) == IF x < lo THEN lo ELSE IF x > hi THEN hi ELSE x

\* C2: calculate_green_time(count) = clamp(10 + 2*count, 10, 30) for every
\* count >= 0: within [10, 30], non-decreasing in count, and 10, 20, 30, 30
\* for counts 0, 5, 10, 20.
C2_GreenTimeClamped ==
    ret_green # None =>
        /\ ret_green = Clamp(10 + 2 * arg_count, 10, 30)
        /\ 10 <= ret_green /\ ret_green <= 30
        /\ \A c \in 0..arg_count : calculate_green_time(c) <= ret_green
        /\ arg_count = 0 => ret_green = 10
        /\ arg_count = 5 => ret_green = 20
        /\ arg_count = 10 => ret_green = 30
        /\ arg_count = 20 => ret_green = 30

\* the clamped case: 10 + 2*20 = 50 is cut to 30
C2_Witness == arg_count = 20 /\ ret_green = 30

\* C3: a tick that finds the signal RED and the eligible lane X with a
\* count > 0 after the sensor update computes green time
\* min(10 + 2*count_X, 30) (16 for lane A count 3, lane B count 0) and sets
\* current_signal to GREEN_X and signal_start_time to the tick's time.
C3_GreenEntry ==
    [][/\ (pc = "decide" /\ current_signal = "RED"
            /\ CountOf(current_lane) > 0) =>
               /\ pc' = "go_green"
               /\ green_time' = Min(10 + 2 * CountOf(current_lane), 30)
               /\ (current_lane = "A" /\ CountOf("A") = 3 /\ CountOf("B") = 0)
                      => green_time' = 16
               /\ UNCHANGED <<current_signal, current_lane, lanes>>
       /\ (pc = "go_green" /\ pc' # "go_green") =>
               /\ current_lane = "A" => current_signal' = "GREEN_A"
               /\ current_lane = "B" => current_signal' = "GREEN_B"
               /\ signal_start_time' = current_time
               /\ pc' = "sleep"
               /\ UNCHANGED <<current_lane, lanes, green_time>>
      ]_vars

\* lane A count 3, lane B count 0: the tick has ended GREEN_A, green time 16
C3_Witness ==
    /\ pc = "sleep"
    /\ current_signal = "GREEN_A"
    /\ signal_start_time = current_time
    /\ green_time = 16
    /\ CountOf("A") = 3
    /\ CountOf("B") = 0

\* C4: the tick on which GREEN_A expires sets current_signal to RED and
\* current_lane to B and then resets lane A's count to 0, leaving lane A's
\* speed_readings and lane B untouched; symmetrically for GREEN_B.
C4_ExpiryEffects ==
    [][/\ (pc = "go_red" /\ pc' # "go_red") =>
               /\ current_signal' = "RED"
               /\ current_signal = "GREEN_A" =>
                      (current_lane' = "B" /\ pc' = "reset_a")
               /\ current_signal = "GREEN_B" =>
                      (current_lane' = "A" /\ pc' = "reset_b")
               /\ UNCHANGED lanes
       /\ pc \in {"reset_a", "reset_b"} =>
               LET x == IF pc = "reset_a" THEN "A" ELSE "B"
                   y == IF pc = "reset_a" THEN "B" ELSE "A"
               IN  /\ current_signal = "RED" /\ current_lane = y
                   /\ lanes'[x].vehicle_count = 0
                   /\ lanes'[x].speed_readings = lanes[x].speed_readings
                   /\ lanes'[y] = lanes[y]
                   /\ pc' = "sleep"
                   /\ UNCHANGED <<current_signal, current_lane>>
      ]_vars

\* the end of a tick that had activity and leaves both counts 0: lane A's
\* count was reset on this tick, by the expiry of GREEN_A
C4_Witness ==
    /\ pc = "sleep"
    /\ current_time = clock
    /\ last_activity_time = current_time
    /\ current_signal = "RED"
    /\ current_lane = "B"
    /\ CountOf("A") = 0
    /\ CountOf("B") = 0
    /\ lanes["A"].vehicle_present

\* C5: while the signal is GREEN_X the phase ends on a tick iff
\* tick time - signal_start_time >= min(10 + 2*count_X, 30) seconds, with
\* lane X's count as it is on that tick.
C5_LiveGreenTime ==
    [][(pc = "decide" /\ current_signal \in Green) =>
           LET x == IF current_signal = "GREEN_A" THEN "A" ELSE "B"
               live == Min(10 + 2 * CountOf(x), 30)
           IN  /\ pc' = "go_red" <=>
                      current_time - signal_start_time >= live
               /\ pc' \in {"go_red", "sleep"}
               /\ UNCHANGED <<current_signal, current_lane, lanes>>
      ]_vars

\* lane A is still green at the end of a tick on which the time that its
\* count without the vehicle counted during the phase allows has run out
C5_Witness ==
    /\ pc = "sleep"
    /\ current_time = clock
    /\ current_signal = "GREEN_A"
    /\ lanes["A"].last_vehicle_time > signal_start_time
    /\ current_time - signal_start_time
           >= 10 + 2 * (CountOf("A") - 1)

\* C6: a tick whose idle_duration exceeds 90 s ends with current_signal RED
\* and leaves current_lane and both counts (both 0) as they were.
C6_IdleHoldsRed ==
    [][/\ (pc = "decide"
            /\ current_time - last_activity_time' > 90) =>
               /\ CountOf("A") = 0 /\ CountOf("B") = 0
               /\ UNCHANGED <<current_lane, lanes, current_signal>>
               /\ \/ current_signal = "RED" /\ pc' = "sleep"
                  \/ current_signal # "RED" /\ pc' = "idle_red"
       /\ (pc = "idle_red" /\ pc' # "idle_red") =>
               /\ current_signal' = "RED"
               /\ pc' = "sleep"
               /\ UNCHANGED <<current_lane, lanes>>
      ]_vars

\* the end of an idle tick that follows earlier traffic
C6_Witness ==
    /\ pc = "sleep"
    /\ current_time = clock
    /\ last_activity_time > StartTime
    /\ current_time - last_activity_time > 90
    /\ current_signal = "RED"

\* C7: no snapshot of get_current_state shows GREEN_A with laneA.count 0 or
\* GREEN_B with laneB.count 0, whatever the interleaving with the loop.
C7_GreenSnapshotHasCount ==
    rpc \in {"release", "returned"} =>
        /\ ~(snap.signal = "GREEN_A" /\ snap.laneA = 0)
        /\ ~(snap.signal = "GREEN_B" /\ snap.laneB = 0)

\* a snapshot showing GREEN_A was returned from a call during which the
\* control loop changed the counts
C7_Witness ==
    /\ rpc = "returned"
    /\ snap.signal = "GREEN_A"
    /\ snap.laneA > 0
    /\ Cardinality(seen) > 1

\* C8: no snapshot shows the RED of a GREEN_X expiry together with lane X's
\* count from before its reset.  (The snapshot below is complete and about
\* to be returned; the loop has left the locked block of the expiry and has
\* not yet called reset_count.)
C8_NoHalfAppliedExpiry ==
    ~(/\ rpc = "release"
      /\ pc \in {"reset_a", "reset_b"}
      /\ snap.signal = "RED"
      /\ LET x == IF pc = "reset_a" THEN "A" ELSE "B"
             c == IF pc = "reset_a" THEN snap.laneA ELSE snap.laneB
         IN  c = CountOf(x) /\ c > 0)

\* C9: every returned snapshot equals the controller's (laneA.count,
\* laneB.count, signal) at some single instant between call and return.
C9_SnapshotInstantaneous ==
    rpc = "returned" => <<snap.laneA, snap.laneB, snap.signal>> \in seen

\* C10 as stated: current_lane changes only on a step that takes the signal
\* from green to RED.
C10_LaneChangesOnlyOnExpiry ==
    [][current_lane' # current_lane =>
           (current_signal \in Green /\ current_signal' = "RED")]_vars

\* C10 amended: current_lane changes only on a tick that takes the signal
\* from GREEN_X to RED (to the other lane), or on a non-idle tick that finds
\* the signal RED and the eligible lane's count 0 (to the other lane, the
\* signal staying RED).
C10_LaneChanges ==
    [][current_lane' # current_lane =>
           \/ /\ current_signal = "GREEN_A" /\ current_signal' = "RED"
              /\ current_lane' = "B"
           \/ /\ current_signal = "GREEN_B" /\ current_signal' = "RED"
              /\ current_lane' = "A"
           \/ /\ current_signal = "RED" /\ current_signal' = "RED"
              /\ pc = "decide"
              /\ CountOf(current_lane) = 0
              /\ current_time - last_activity_time' <= 90
              /\ current_lane' # current_lane
      ]_vars

\* the first tick found lane A empty and made lane B eligible, RED to RED
C10_Witness ==
    /\ pc = "sleep"
    /\ clock = StartTime
    /\ current_signal = "RED"
    /\ current_lane = "B"

\* C11: a non-idle tick that starts with the signal RED, current_lane X
\* and lane X's count 0 leaves the signal RED, makes the other lane current
\* and changes no lane's count.
C11_EmptyLaneSwitch ==
    [][(/\ pc = "decide"
        /\ current_signal = "RED"
        /\ CountOf(current_lane) = 0
        /\ current_time - last_activity_time' <= 90)
       => /\ current_signal' = "RED"
          /\ current_lane' = (IF current_lane = "A" THEN "B" ELSE "A")
          /\ lanes' = lanes
          /\ pc' = "sleep"
      ]_vars

\* lane B was eligible and empty while lane A had counted a vehicle: the
\* tick made lane A eligible again under RED, lane A's count kept
C11_Witness ==
    /\ pc = "sleep"
    /\ current_signal = "RED"
    /\ current_lane = "A"
    /\ CountOf("A") > 0
    /\ CountOf("B") = 0
    /\ lanes["B"].last_vehicle_time = 0
    /\ last_activity_time = current_time

\* the LaneMonitor driven in LaneSpec
LaneA == lanes["A"]

\* C12: in every state reached through update() and reset_count() calls
\* entry_time is set (not None) exactly when vehicle_present is true.
C12_EntryTimeIffPresent ==
    (LaneA.entry_time # None) <=> LaneA.vehicle_present

\* a vehicle in front of the sensor was counted, the count was then reset
\* and the lane polled again: still present, entry time still set
C12_Witness ==
    /\ road.occluded
    /\ road.polls >= 1
    /\ road.fails = 0
    /\ LaneA.vehicle_present
    /\ LaneA.entry_time # None
    /\ LaneA.vehicle_count = 0
    /\ LaneA.last_vehicle_time > 0

\* what update() is told by a read delivering r
Reported(r) == is_vehicle_present(has_device["A"], r)

\* C13: vehicle_count changes in two ways only: an update() that is told of
\* a vehicle while vehicle_present is false adds one (and sets
\* vehicle_present and entry_time = now), and reset_count() sets it to 0;
\* every other step leaves it as it was, so a vehicle that stays in front
\* of the sensor over many calls is counted once.
C13_CountChanges ==
    [][/\ \A r \in Reads :
              (LanePoll(r) /\ Reported(r) /\ ~LaneA.vehicle_present)
              => /\ LaneA'.vehicle_count = LaneA.vehicle_count + 1
                 /\ LaneA'.vehicle_present
                 /\ LaneA'.entry_time = clock
       /\ LaneReset => LaneA'.vehicle_count = 0
       /\ LaneA'.vehicle_count # LaneA.vehicle_count
          => \/ LaneReset
             \/ \E r \in Reads :
                    LanePoll(r) /\ Reported(r) /\ ~LaneA.vehicle_present
      ]_vars

\* a vehicle has stayed in front of the sensor over MaxPolls good reads
\* while the clock moved on, and it has been counted once
C13_Witness ==
    /\ road.occluded
    /\ road.polls = MaxPolls
    /\ road.fails = 0
    /\ LaneA.vehicle_present
    /\ clock > LaneA.entry_time
    /\ LaneA.vehicle_count = road.base + 1

\* C14: a falling edge with a blocking duration above 0 appends the
\* estimate (lane_width_cm / blocking_duration) * 0.036 km/h to
\* speed_readings exactly when 10 <= estimate <= 60, both ends included: an
\* estimate of exactly 10 km/h is accepted, one of 9.99 km/h and that of one
\* second over 4 cm (0.144 km/h) are not.
C14_SpeedBand ==
    [][\A r \in Reads :
          (/\ LanePoll(r)
           /\ ~Reported(r)
           /\ LaneA.vehicle_present
           /\ clock - LaneA.entry_time > 0)
          => LET blocking_duration == clock - LaneA.entry_time
                 width == LaneA.lane_width_cm
             IN  IF /\ 10 * 1000 * blocking_duration <= width * 36
                    /\ width * 36 <= 60 * 1000 * blocking_duration
                 THEN LaneA'.speed_readings =
                          Append(LaneA.speed_readings,
                                 Rat(width * 36, blocking_duration * 1000))
                 ELSE LaneA'.speed_readings = LaneA.speed_readings
      ]_vars

\* C15: every falling edge, whether its reading is accepted, rejected or
\* skipped because the blocking duration is 0 or negative, leaves
\* vehicle_present false and entry_time None and the count as it was, and
\* completes without an error: a skipped reading leaves speed_readings
\* as it was, any other adds at most one.
C15_FallingEdgeClears ==
    [][\A r \in Reads :
          (LanePoll(r) /\ ~Reported(r) /\ LaneA.vehicle_present)
          => /\ ~LaneA'.vehicle_present
             /\ LaneA'.entry_time = None
             /\ LaneA'.vehicle_count = LaneA.vehicle_count
             /\ clock - LaneA.entry_time <= 0
                => LaneA'.speed_readings = LaneA.speed_readings
             /\ \/ LaneA'.speed_readings = LaneA.speed_readings
                \/ /\ Len(LaneA'.speed_readings)
                          = Len(LaneA.speed_readings) + 1
                   /\ SubSeq(LaneA'.speed_readings, 1,
                             Len(LaneA.speed_readings))
                          = LaneA.speed_readings
      ]_vars

\* the vehicle was counted at the last clock reading there is, so the
\* falling edge that followed had a blocking duration of 0 or less: the
\* reading was skipped and the lane cleared
C15_Witness ==
    /\ LaneA.last_vehicle_time = env.max_time
    /\ LaneA.vehicle_count >= 1
    /\ ~LaneA.vehicle_present
    /\ LaneA.entry_time = None
    /\ LaneA.speed_readings = <<>>

\* C16: an update() that is told what vehicle_present already says (no
\* edge) leaves vehicle_present, entry_time, vehicle_count and
\* speed_readings as they were.
C16_NoEdgeNoChange ==
    [][\A r \in Reads :
          (LanePoll(r) /\ Reported(r) = LaneA.vehicle_present)
          => /\ LaneA'.vehicle_present = LaneA.vehicle_present
             /\ LaneA'.entry_time = LaneA.entry_time
             /\ LaneA'.vehicle_count = LaneA.vehicle_count
             /\ LaneA'.speed_readings = LaneA.speed_readings
      ]_vars

\* a vehicle was counted at the first clock reading and polled again
\* without a failed read: at the last clock reading its entry time is still
\* the first one
C16_Witness ==
    /\ road.occluded
    /\ road.polls = MaxPolls
    /\ road.fails = 0
    /\ road.base = 0
    /\ LaneA.vehicle_present
    /\ LaneA.vehicle_count = 1
    /\ LaneA.entry_time = StartTime
    /\ clock = env.max_time

\* C17: reset_count() sets vehicle_count to 0 and leaves speed_readings,
\* vehicle_present and entry_time as they were; the count then grows only
\* on a step that takes vehicle_present from false to true, so a vehicle in
\* front of the sensor at the reset is not counted again before it has left.
C17_ResetKeepsPresence ==
    [][/\ LaneReset
          => /\ LaneA'.vehicle_count = 0
             /\ LaneA'.speed_readings = LaneA.speed_readings
             /\ LaneA'.vehicle_present = LaneA.vehicle_present
             /\ LaneA'.entry_time = LaneA.entry_time
       /\ LaneA'.vehicle_count > LaneA.vehicle_count
          => ~LaneA.vehicle_present /\ LaneA'.vehicle_present
      ]_vars

\* a first vehicle left a reading; a second one was counted, the count was
\* reset while it stood in front of the sensor, and the polls that followed
\* did not count it again
C17_Witness ==
    /\ LaneA.speed_readings # <<>>
    /\ road.occluded
    /\ road.polls = MaxPolls
    /\ road.fails = 0
    /\ LaneA.vehicle_present
    /\ LaneA.vehicle_count = 0

\* C19: a single missed sample does not count a vehicle twice: while one
\* vehicle occludes the sensor and exactly one read of its run has failed
\* (get_distance fell back to the baseline), vehicle_count is at most one
\* above what the vehicle found when it arrived.
C19_MissedSampleCountsOnce ==
    (road.occluded /\ road.fails = 1)
    => LaneA.vehicle_count <= road.base + 1

\* C18: with both sensors unavailable for the whole run (no device object,
\* or every read failing) no tick detects a vehicle: both counts stay 0,
\* the signal is RED in every reachable state and the loop never reaches a
\* green grant.
C18_NoSensorStaysRed ==
    /\ \A l \in Lanes : ~lanes[l].vehicle_present /\ CountOf(l) = 0
    /\ current_signal = "RED"
    /\ pc \in {"loop", "update_a", "update_b", "decide", "sleep"}

\* lane A's sensor has a device whose reads fail, lane B's has none; the
\* loop has run past the idle timeout
C18_Witness ==
    /\ has_device["A"] /\ ~has_device["B"]
    /\ pc = "sleep"
    /\ current_time - last_activity_time > idle_timeout
    /\ current_signal = "RED"

\* C20: the stop request is looked at once per tick, at the top of the
\* loop: the loop exits only from there, and only once running is false; a
\* tick that has begun runs to its end whatever running has become, so on
\* a green-expiry tick the change to RED and the lane switch, then the
\* reset of the served lane's count, are all applied before the loop exits.
C20_StopBetweenTicks ==
    [][/\ pc' = "done" => (pc = "loop" /\ ~running)
       /\ (pc = "loop" /\ pc' # pc /\ pc' # "done") => running
       /\ (pc = "go_red" /\ pc' # pc)
          => /\ current_signal' = "RED"
             /\ current_lane' = (IF current_signal = "GREEN_A" THEN "B"
                                 ELSE "A")
             /\ pc' = (IF current_signal = "GREEN_A" THEN "reset_a"
                       ELSE "reset_b")
       /\ (pc = "reset_a" /\ pc' # pc)
          => CountOf("A")' = 0 /\ pc' = "sleep"
       /\ (pc = "reset_b" /\ pc' # pc)
          => CountOf("B")' = 0 /\ pc' = "sleep"
       /\ (pc = "sleep" /\ pc' # pc) => pc' = "loop"
      ]_vars

\* stop() was called during the tick on which GREEN_A expired, after its
\* loop test and before its sleep: the tick has gone on to set the signal
\* RED, make lane B eligible and reset lane A's count
C20_Witness ==
    /\ pc = "sleep"
    /\ ~running
    /\ last_activity_time = current_time
    /\ current_time - signal_start_time >= min_green_time
    /\ current_signal = "RED"
    /\ current_lane = "B"
    /\ CountOf("A") = 0
    /\ lanes["A"].last_vehicle_time > 0

\* C26: on every tick on which a lane's count is nonzero after the sensor
\* update, green phases included, last_activity_time becomes the tick's
\* time; on every tick on which both counts are 0 it stays as it was; no
\* other step writes it, and the idle timeout is measured from it.
C26_ActivityTime ==
    [][/\ pc = "decide"
          => /\ (CountOf("A") > 0 \/ CountOf("B") > 0)
                => last_activity_time' = current_time
             /\ (CountOf("A") = 0 /\ CountOf("B") = 0)
                => last_activity_time' = last_activity_time
             /\ (current_signal = "RED" /\ pc' = "sleep"
                    /\ current_lane' = current_lane)
                <=> (current_signal = "RED"
                       /\ current_time - last_activity_time' > 90)
       /\ pc # "decide" => last_activity_time' = last_activity_time
      ]_vars

\* a tick of a green phase, later than the one that granted it, has set
\* last_activity_time to its own time
C26_Witness ==
    /\ pc = "sleep"
    /\ current_signal \in Green
    /\ current_time > signal_start_time
    /\ last_activity_time = current_time

\* C28: with one control loop, whenever the signal is GREEN_X lane X's
\* count is at least 1; so the idle duration of every tick of a green
\* phase is 0 and the idle branch that forces a green signal to RED is
\* never taken.
C28_GreenHasCount ==
    /\ current_signal = "GREEN_A" => CountOf("A") >= 1
    /\ current_signal = "GREEN_B" => CountOf("B") >= 1
    /\ (current_signal \in Green /\ pc \notin {"loop", "update_a", "update_b",
                                                "decide"})
       => current_time - last_activity_time = 0
    /\ pc # "idle_red"

\* lane B is green more than idle_timeout after the start, lane A never
\* having counted a vehicle
C28_Witness ==
    /\ current_signal = "GREEN_B"
    /\ pc = "sleep"
    /\ current_time - StartTime > idle_timeout
    /\ lanes["A"].last_vehicle_time = 0

\* C29: whenever the signal is GREEN_A current_lane is A, and whenever it
\* is GREEN_B current_lane is B.
C29_GreenIsEligibleLane ==
    /\ current_signal = "GREEN_A" => current_lane = "A"
    /\ current_signal = "GREEN_B" => current_lane = "B"

\* lane B is green, after lane A has had its phase
C29_Witness ==
    /\ current_signal = "GREEN_B"
    /\ current_lane = "B"
    /\ lanes["A"].last_vehicle_time > 0
    /\ CountOf("A") = 0

\* C30: the signal never goes from one green to the other: every step that
\* leaves a green state ends in RED and every step that enters one starts
\* in RED.
C30_GreenViaRed ==
    [][current_signal' # current_signal
       => \/ current_signal \in Green /\ current_signal' = "RED"
          \/ current_signal = "RED" /\ current_signal' \in Green
      ]_vars

\* GREEN_B has been granted from RED after GREEN_A had expired into RED
C30_Witness ==
    /\ current_signal = "GREEN_B"
    /\ signal_start_time >= StartTime + min_green_time
    /\ lanes["A"].last_vehicle_time > 0
    /\ CountOf("A") = 0
    /\ pc = "sleep"

\* C25: get_current_state(), with the get_state() and get_average_speed()
\* calls it makes, is a pure read: no step of it changes a field of either
\* LaneMonitor or the controller's signal, current_lane, signal_start_time
\* or last_activity_time; get_average_speed() returns 0 when speed_readings
\* is empty.
C25_PureReads ==
    [][/\ rpc' # rpc
          => UNCHANGED <<lanes, current_signal, signal_start_time,
                         current_lane, last_activity_time>>
       /\ (rpc = "speed_a" /\ rpc' # rpc /\ lanes["A"].speed_readings = <<>>)
          => snap'.speedA = <<0, 1>>
       /\ (rpc = "speed_b" /\ rpc' # rpc /\ lanes["B"].speed_readings = <<>>)
          => snap'.speedB = <<0, 1>>
      ]_vars

\* a snapshot has been returned with lane A's count and average speed 0 for
\* both lanes, the controller's state being what the snapshot shows
C25_Witness ==
    /\ rpc = "returned"
    /\ snap.speedA = <<0, 1>>
    /\ snap.speedB = <<0, 1>>
    /\ snap.laneA > 0
    /\ snap.laneA = CountOf("A")
    /\ snap.signal = current_signal

\* C27: speed_readings never holds more than 20 estimates; an estimate
\* accepted when it holds 20 evicts the oldest one and keeps the others in
\* their order, one accepted below 20 is added at the end.
C27_HistoryBounded ==
    /\ [](Len(LaneA.speed_readings) <= 20)
    /\ [][LaneA'.speed_readings # LaneA.speed_readings
          => LET old == LaneA.speed_readings
                 new == LaneA'.speed_readings
                 estimate == Rat(LaneA.lane_width_cm * 36,
                                 (clock - LaneA.entry_time) * 1000)
             IN  /\ LaneA.vehicle_present /\ ~LaneA'.vehicle_present
                 /\ new[Len(new)] = estimate
                 /\ IF Len(old) = 20
                    THEN /\ Len(new) = 20
                         /\ \A i \in 1..19 : new[i] = old[i + 1]
                    ELSE /\ Len(new) = Len(old) + 1
                         /\ \A i \in 1..Len(old) : new[i] = old[i]
         ]_vars

\* the full history ends with the estimates of two vehicles counted since
\* the count was last 0 (60 km/h twice, never side by side before): room
\* was made for at least one of them
C27_Witness ==
    /\ Len(LaneA.speed_readings) = 20
    /\ LaneA.speed_readings[20] = <<60, 1>>
    /\ LaneA.speed_readings[19] = <<60, 1>>
    /\ LaneA.vehicle_count = 2
    /\ ~LaneA.vehicle_present

\* C24: no tick of the control loop ends in an error: whatever the sensors
\* deliver (a reading, a failed read, no device), whatever the lane width
\* (0 included) and whatever the blocking duration (zero and negative
\* included), update() raises nothing and the loop goes on to the next
\* step, so the loop is never ended by an exception.
C24_NoTickFails ==
    /\ pc # "crashed"
    /\ \A l \in Lanes : \A p \in BOOLEAN :
           ~update_raises(lanes[l], p, clock)

\* a vehicle was counted by a sensor of lane width 0 and left at a clock
\* reading not later than the one it was counted at: the loop is at the end
\* of that tick, the lane cleared and without estimate
C24_Witness ==
    /\ pc = "sleep"
    /\ lanes["A"].lane_width_cm = 0
    /\ ~has_device["B"]
    /\ CountOf("A") >= 1
    /\ ~lanes["A"].vehicle_present
    /\ lanes["A"].last_vehicle_time >= clock
    /\ lanes["A"].speed_readings = <<>>

\* C23: the control loop holds the lock only around the assignments to
\* current_signal, signal_start_time and current_lane: never while a sensor
\* is read (no LaneMonitor changes) nor while it sleeps (the clock does not
\* move); so a get_current_state() call waiting for the lock always
\* returns.
C23_LockOnlyAroundWrites ==
    /\ [](lock = "loop" => pc \in {"idle_red", "go_green", "go_red"})
    /\ [][lock = "loop"
          => UNCHANGED <<lanes, clock, last_activity_time>>]_vars
    /\ (rpc = "acquire" ~> rpc = "returned")

\* get_current_state() has been called and waits while the control loop is
\* inside the locked block of a green expiry
C23_Witness ==
    /\ rpc = "acquire"
    /\ lock = "loop"
    /\ pc = "go_red"

\* C21: once stop() has been called (no start() following) the control
\* loop begins no further tick, and under fair scheduling of its thread it
\* finishes the tick in flight and terminates; as long as stop() has not
\* been called it does not terminate.  (A tick in flight at the last clock
\* reading explored cannot finish its sleep and is left out.)
C21_StopTerminates ==
    /\ [](running => pc # "done")
    /\ [][~running => ~(pc = "loop" /\ pc' = "update_a")]_vars
    /\ ((~running /\ (pc = "loop"
                        \/ \E d \in env.deltas : clock + d <= env.max_time))
           ~> pc = "done")

\* stop() was called during a green phase: the loop has terminated and the
\* signal is left green
C21_Witness ==
    /\ pc = "done"
    /\ ~running
    /\ current_signal = "GREEN_A"
    /\ CountOf("A") >= 1

\* C22: whatever sequence of start() and stop() calls is made (start()
\* twice, start() after a stop() that the old loop has not yet seen), at
\* most one control-loop thread is alive at any time.
C22_SingleLoop == threads <= 1

\* C35: stop() writes nothing but the running flag, the loop's return
\* writes nothing, and once the loop has returned the signal, the eligible
\* lane, the two timestamps and the lanes' counts stay as the last completed
\* tick left them; a green signal stays green.
C35_StopKeepsState ==
    /\ [][stop => UNCHANGED <<ctrlVars, lock, loopVars>>]_vars
    /\ [][LoopExit => UNCHANGED ctrlVars]_vars
    /\ [][pc = "done" => UNCHANGED <<ctrlVars, pc>>]_vars

C35_Witness ==
    /\ pc = "done"
    /\ ~running
    /\ current_signal = "GREEN_A"
    /\ lanes["A"].vehicle_count > 0

\* C33: a green signal entered at signal_start_time = t is left only on a
\* tick whose time is at least t + min_green_time: on every tick before
\* that the signal stays as it is, whatever the counts and the idle time
\* are, and t is not moved while the signal is green.
C33_MinimumGreen ==
    [][current_signal # "RED" =>
           /\ current_signal' # current_signal =>
                  current_time - signal_start_time >= min_green_time
           /\ (current_signal' = current_signal =>
                  signal_start_time' = signal_start_time)
           /\ Decide /\ current_time - signal_start_time < min_green_time =>
                  pc' = "sleep"]_vars

C33_Witness ==
    /\ pc = "sleep"
    /\ current_signal = "GREEN_B"
    /\ current_time > signal_start_time
    /\ current_time - signal_start_time < min_green_time

\* C32: a tick that finds the signal RED and a nonzero count on some lane
\* after its sensor update either turns the signal green on this tick or
\* hands eligibility to the other lane, whose count is nonzero; a tick that
\* begins with the signal RED and a nonzero count on the eligible lane
\* (which is how every tick begins that follows a RED tick with a nonzero
\* count) turns the signal green for that lane, its count still nonzero.
SomeCount == \E l \in Lanes : lanes[l].vehicle_count > 0

BetweenTicks == pc \in {"sleep", "loop"}

C32_GreenWithinTwoTicks ==
    /\ [][Decide /\ current_signal = "RED" /\ SomeCount =>
              \/ pc' = "go_green" /\ lanes[current_lane].vehicle_count > 0
              \/ /\ pc' = "sleep"
                 /\ current_lane' # current_lane
                 /\ lanes[current_lane'].vehicle_count > 0]_vars
    /\ [](BetweenTicks /\ current_signal = "RED" /\ SomeCount =>
              lanes[current_lane].vehicle_count > 0)
    /\ [][SensorUpdate =>
              \A l \in Lanes :
                  lanes'[l].vehicle_count >= lanes[l].vehicle_count]_vars
    /\ [][Decide /\ current_signal = "RED"
                 /\ lanes[current_lane].vehicle_count > 0 =>
              pc' = "go_green"]_vars
    /\ [][pc = "go_green" /\ pc' # pc =>
              /\ pc' = "sleep"
              /\ current_signal' = GreenFor(current_lane)
              /\ lanes'[current_lane].vehicle_count > 0]_vars

\* the slower case: lane A has never seen a vehicle, lane B's vehicle was
\* counted on an earlier tick, which handed eligibility to B, and this tick
\* is turning the signal green for B
C32_Witness ==
    /\ pc = "go_green"
    /\ current_signal = "RED"
    /\ current_lane = "B"
    /\ lanes["A"].last_vehicle_time = 0
    /\ lanes["B"].vehicle_count > 0
    /\ lanes["B"].last_vehicle_time < current_time

\* C31: a lane whose count is nonzero after a tick's sensor update gets
\* the green signal, whatever arrives on either lane meanwhile, provided
\* the clock keeps advancing: the tick is early enough for the horizon of
\* the exploration to hold a green phase of max_green_time for the other
\* lane, the tick that ends it and the tick that follows.  What makes this
\* so is that no green phase outlives max_green_time however many vehicles
\* its lane counts: a tick that leaves the signal green found the phase
\* younger than max_green_time.
LongestSleep == CHOOSE d \in env.deltas : \A e \in env.deltas : e <= d

ServiceTime == max_green_time + 2 * LongestSleep

GreenEnds ==
    (current_signal # "RED" /\ pc = "sleep")
        => current_time - signal_start_time < max_green_time

C31_NoStarvation ==
    /\ \A l \in Lanes :
           (pc = "decide" /\ lanes[l].vehicle_count > 0
                          /\ clock + ServiceTime <= env.max_time)
               ~> current_signal = GreenFor(l)
    /\ []GreenEnds

\* lane A is green for the vehicle counted on the tick that turned lane B
\* green with 16 vehicles waiting; lane B's phase lasted max_green_time
\* although vehicles went on entering lane B
C31_Witness ==
    /\ current_signal = "GREEN_A"
    /\ lanes["A"].vehicle_count = 1
    /\ lanes["A"].last_vehicle_time = ServeStart
    /\ signal_start_time = ServeStart + max_green_time + LongestSleep
    /\ lanes["B"].last_vehicle_time > ServeStart
    /\ lanes["B"].last_vehicle_time < signal_start_time

\* C34: with lane_width_cm = 4 and update() calls at least 100 ms apart,
\* every falling edge finds a blocking time of at least 100 ms, its speed
\* estimate is at most 1.44 km/h and is not accepted; speed_readings is
\* always empty and get_average_speed() always 0.
SpeedCeiling == <<144, 100>>

C34_NoSpeedAtFourCm ==
    /\ [](/\ lanes["A"].lane_width_cm = 4
          /\ lanes["A"].speed_readings = <<>>
          /\ get_average_speed(lanes["A"]) = <<0, 1>>)
    /\ [][\A r \in Reads :
              (/\ TenthPoll(r)
               /\ falling_edge(lanes["A"],
                               is_vehicle_present(has_device["A"], r))) =>
                  LET blocking_time == clock - lanes["A"].entry_time
                  IN  /\ blocking_time * env.unit_ms >= 100
                      /\ RatLeq(speed_kmh(lanes["A"].lane_width_cm,
                                          blocking_time), SpeedCeiling)
                      /\ ~accepted(lanes["A"], clock)]_vars

\* a vehicle was counted by one update() and has just been found gone by
\* the next one, 100 ms later
C34_Witness ==
    /\ pc = "sleep"
    /\ ~lanes["A"].vehicle_present
    /\ lanes["A"].vehicle_count > 0
    /\ lanes["A"].last_vehicle_time = clock - 1
    /\ env.unit_ms = 100

====
